---- MODULE Spec2Model ----
(***************************************************************************)
(* CodeBERT embedding service (services/codebert/main.py).                 *)
(*                                                                         *)
(* State: the three module globals (model, tokenizer, device), the         *)
(* position of the process in its life cycle (module imported, the steps   *)
(* of load_model run by the lifespan hook, serving, failed, shut down),    *)
(* and the outcome of the last handler call.                               *)
(*                                                                         *)
(* The handlers are `async def` bodies without an await, so each one runs  *)
(* to completion on the event loop: one action per handler.  load_model    *)
(* is synchronous too, but it can raise between two of its assignments,    *)
(* so it is modelled statement by statement.                               *)
(*                                                                         *)
(* The handlers are routes of the module-level `app`.  The lifespan hook   *)
(* runs only when the ASGI host sends the lifespan events; a host that     *)
(* does not (a test client used without its context manager, a server run  *)
(* with lifespan off) calls the handlers while the globals still are None. *)
(* That is the state the guards at main.py:109, :138 and :166 are for, and *)
(* it is phase "imported" here.                                            *)
(*                                                                         *)
(* A tensor is carried as its content along the sequence axis plus the     *)
(* size of its hidden axis: mean(dim=1) acts alike on every hidden         *)
(* component, and the handlers only take len() of a vector.                *)
(***************************************************************************)
EXTENDS Integers, Sequences, FiniteSets, TLC

VARIABLES MODEL_NAME, model, tokenizer, device, phase, loads, last

vars == <<MODEL_NAME, model, tokenizer, device, phase, loads, last>>

globals == <<model, tokenizer, device>>

----------------------------------------------------------------------------
(* Bounds of the explored inputs *)

MaxBatch == 2        \* longest texts list of a batch request

----------------------------------------------------------------------------
(* Program constants *)

DefaultModelName == "microsoft/codebert-base"
DefaultMaxLength == 512
DefaultDimension == 768
HealthModelName == "microsoft/codebert-base"
NotLoadedMessage == "Model not loaded"
StatusOK == 200
StatusInternalError == 500
StatusUnavailable == 503

(* token ids of the RoBERTa vocabulary the tokenizer adds *)
BOS == 0
PAD == 1
EOS == 2

Unset == "<unset>"
EnvModelNames == {Unset, "microsoft/graphcodebert-base", "roberta-large"}

None == [name |-> "None", device |-> "None", eval |-> FALSE]
NoTokenizer == "None"
NoDevice == "None"

----------------------------------------------------------------------------
(* Request bodies *)

RECURSIVE SeqsUpTo(_, _)
SeqsUpTo(S, n) ==
    IF n = 0 THEN {<<>>}
    ELSE LET shorter == SeqsUpTo(S, n - 1)
         IN  shorter \cup {Append(s, x) : s \in {t \in shorter : Len(t) = n - 1}, x \in S}

(* request texts, as the word pieces the tokenizer splits them into: two of
   one piece, one of two pieces *)
Texts == {<<3>>, <<4>>, <<3, 4>>}

(* 3 truncates the longest text to one word piece; the default truncates none *)
MaxLengths == {3, DefaultMaxLength}

EmbeddingRequest == [text : Texts, max_length : MaxLengths]

BatchEmbeddingRequest == [texts : SeqsUpTo(Texts, MaxBatch), max_length : MaxLengths]

(* the probe string "test" of health_check: one word piece *)
ProbeText == <<3>>

(* where the library may raise while a request is handled *)
Faults == {"none", "tokenizer", "forward"}

FaultMessage(fault) ==
    IF fault = "tokenizer" THEN "tokenizer failed" ELSE "forward pass failed"

----------------------------------------------------------------------------
(* The pretrained-model library *)

os_getenv(value, default) == IF value = Unset THEN default ELSE value

(* config.hidden_size of the checkpoint *)
HiddenSize(name) == IF name = "roberta-large" THEN 1024 ELSE 768

(* a stand-in for the checkpoint's weights: differs between checkpoints *)
Weight(name) ==
    IF name = "microsoft/codebert-base" THEN 5
    ELSE IF name = "microsoft/graphcodebert-base" THEN 7 ELSE 11

Min(a, b) == IF a < b THEN a ELSE b
Max(a, b) == IF a > b THEN a ELSE b

RECURSIVE SumSeq(_)
SumSeq(s) == IF s = <<>> THEN 0 ELSE Head(s) + SumSeq(Tail(s))

RECURSIVE GCD(_, _)
GCD(a, b) == IF b = 0 THEN a ELSE GCD(b, a % b)

(* an exact quotient n/d, d > 0, in lowest terms *)
Frac(n, d) == LET g == GCD(n, d) IN <<n \div g, d \div g>>

(* truncation=True, max_length=max_length: <s> words </s>, the words cut so
   that the whole fits in max_length *)
Encode(text, max_length) ==
    LET keep == Min(Len(text), Max(max_length - 2, 0))
    IN  <<BOS>> \o SubSeq(text, 1, keep) \o <<EOS>>

RECURSIVE MaxLen(_)
MaxLen(rows) == IF rows = <<>> THEN 0 ELSE Max(Len(Head(rows)), MaxLen(Tail(rows)))

(* tokenizer(texts, return_tensors="pt", padding=True, truncation=True,
   max_length=max_length): every row padded with PAD to the longest row of
   the batch; attention_mask is 1 on the tokens and 0 on the padding *)
Tokenize(texts, max_length) ==
    LET enc == [i \in 1..Len(texts) |-> Encode(texts[i], max_length)]
        L   == MaxLen(enc)
    IN  [input_ids      |-> [i \in 1..Len(texts) |->
                               [p \in 1..L |-> IF p <= Len(enc[i]) THEN enc[i][p] ELSE PAD]],
         attention_mask |-> [i \in 1..Len(texts) |->
                               [p \in 1..L |-> IF p <= Len(enc[i]) THEN 1 ELSE 0]]]

(* outputs.last_hidden_state of the forward pass: one hidden vector for EVERY position of
   every row, the padding positions included.  A position's vector depends
   on its own token, its position and, through masked attention, on the
   attended (mask = 1) tokens of its own row only. *)
Forward(m, inputs) ==
    [i \in 1..Len(inputs.input_ids) |->
        LET ids  == inputs.input_ids[i]
            mask == inputs.attention_mask[i]
            ctx  == SumSeq([p \in 1..Len(ids) |-> ids[p] * mask[p]])
        IN  [p \in 1..Len(ids) |-> Weight(m.name) * ids[p] + p + ctx]]

(* last_hidden_state.mean(dim=1): the plain mean over the sequence axis *)
MeanDim1(m, hidden) ==
    [i \in 1..Len(hidden) |->
        [dim |-> HiddenSize(m.name), mean |-> Frac(SumSeq(hidden[i]), Len(hidden[i]))]]

VecLen(v) == v.dim

----------------------------------------------------------------------------
(* Inference helpers.  A call returns a value or raises; either way it
   reports how often it called the tokenizer and the model. *)

Return(value, tok, fwd) ==
    [raised |-> FALSE, msg |-> "", failure |-> "none", value |-> value, tok |-> tok, fwd |-> fwd]

Raise(msg, failure, tok, fwd) ==
    [raised |-> TRUE, msg |-> msg, failure |-> failure, value |-> <<>>, tok |-> tok, fwd |-> fwd]

generate_embedding(text, max_length, fault) ==
    IF model = None \/ tokenizer = NoTokenizer
    THEN Raise(NotLoadedMessage, "not_loaded", 0, 0)
    ELSE IF fault = "tokenizer" THEN Raise(FaultMessage(fault), fault, 1, 0)
    ELSE IF fault = "forward" THEN Raise(FaultMessage(fault), fault, 1, 1)
    ELSE LET inputs     == Tokenize(<<text>>, max_length)
             embeddings == MeanDim1(model, Forward(model, inputs))
         IN  Return(embeddings[1], 1, 1)

Reverse(s) == [i \in 1..Len(s) |-> s[Len(s) + 1 - i]]

(* generate_batch_embeddings returning the rows in reverse order *)
generate_batch_embeddings_reversed(texts, max_length, fault) ==
    IF model = None \/ tokenizer = NoTokenizer
    THEN Raise(NotLoadedMessage, "not_loaded", 0, 0)
    ELSE IF fault = "tokenizer" THEN Raise(FaultMessage(fault), fault, 1, 0)
    ELSE IF fault = "forward" THEN Raise(FaultMessage(fault), fault, 1, 1)
    ELSE LET inputs     == Tokenize(texts, max_length)
             embeddings == MeanDim1(model, Forward(model, inputs))
         IN  Return(Reverse(embeddings), 1, 1)

generate_batch_embeddings(texts, max_length, fault) ==
    IF model = None \/ tokenizer = NoTokenizer
    THEN Raise(NotLoadedMessage, "not_loaded", 0, 0)
    ELSE IF fault = "tokenizer" THEN Raise(FaultMessage(fault), fault, 1, 0)
    ELSE IF fault = "forward" THEN Raise(FaultMessage(fault), fault, 1, 1)
    ELSE LET inputs     == Tokenize(texts, max_length)
             embeddings == MeanDim1(model, Forward(model, inputs))
         IN  Return(embeddings, 1, 1)

----------------------------------------------------------------------------
(* Handlers: what the caller gets back.  escaped = the exception left the
   handler uncaught and the framework answered in its place. *)

Loaded == model # None /\ tokenizer # NoTokenizer

Response(endpoint, req, status, detail, body, r) ==
    [endpoint |-> endpoint, req |-> req, loaded |-> Loaded, status |-> status,
     detail |-> detail, escaped |-> FALSE, failure |-> r.failure, body |-> body,
     tok |-> r.tok, fwd |-> r.fwd]

Escaped(endpoint, req, r) ==
    [endpoint |-> endpoint, req |-> req, loaded |-> Loaded, status |-> StatusInternalError,
     detail |-> "Internal Server Error", escaped |-> TRUE, failure |-> r.failure,
     body |-> <<>>, tok |-> r.tok, fwd |-> r.fwd]

NoCall == Return(<<>>, 0, 0)

NoResponse == Response("none", <<>>, 0, "", <<>>, NoCall)

health_check(fault) ==
    IF model = None
    THEN Response("/health", <<>>, StatusUnavailable, NotLoadedMessage, <<>>, NoCall)
    ELSE LET r == generate_embedding(ProbeText, DefaultMaxLength, fault)
         IN  IF r.raised
             THEN Escaped("/health", <<>>, r)
             ELSE Response("/health", <<>>, StatusOK, "",
                           [status |-> "healthy", model |-> HealthModelName,
                            device |-> device, dimension |-> VecLen(r.value)], r)

embed_text(request, fault) ==
    LET r == generate_embedding(request.text, request.max_length, fault)
    IN  IF r.raised
        THEN Response("/embed", request, StatusInternalError, r.msg, <<>>, r)
        ELSE Response("/embed", request, StatusOK, "",
                      [embedding |-> r.value, dimension |-> VecLen(r.value)], r)

(* embed_batch without the early return for an empty texts list *)
embed_batch_no_early_return(request, fault) ==
    LET r == generate_batch_embeddings(request.texts, request.max_length, fault)
    IN  IF r.raised
        THEN Response("/embed/batch", request, StatusInternalError, r.msg, <<>>, r)
        ELSE Response("/embed/batch", request, StatusOK, "",
                      [embeddings |-> r.value,
                       dimension  |-> IF r.value # <<>> THEN VecLen(r.value[1])
                                      ELSE DefaultDimension,
                       count      |-> Len(r.value)], r)

embed_batch(request, fault) ==
    IF Len(request.texts) = 0
    THEN Response("/embed/batch", request, StatusOK, "",
                  [embeddings |-> <<>>, dimension |-> DefaultDimension, count |-> 0], NoCall)
    ELSE LET r == generate_batch_embeddings(request.texts, request.max_length, fault)
         IN  IF r.raised
             THEN Response("/embed/batch", request, StatusInternalError, r.msg, <<>>, r)
             ELSE Response("/embed/batch", request, StatusOK, "",
                           [embeddings |-> r.value,
                            dimension  |-> IF r.value # <<>> THEN VecLen(r.value[1])
                                           ELSE DefaultDimension,
                            count      |-> Len(r.value)], r)

root ==
    Response("/", <<>>, StatusOK, "",
             [service |-> "CodeBERT Embedding Service", version |-> "1.0.0"], NoCall)

----------------------------------------------------------------------------
(* The process *)

Init ==
    /\ MODEL_NAME \in EnvModelNames
    /\ model = None
    /\ tokenizer = NoTokenizer
    /\ device = NoDevice
    /\ phase = "imported"
    /\ loads = 0
    /\ last = NoResponse

(* the host calls a route: before the lifespan ran, or while serving *)
Accepting == phase \in {"imported", "serving"}

Root ==
    /\ Accepting
    /\ last' = root
    /\ UNCHANGED <<MODEL_NAME, model, tokenizer, device, phase, loads>>

HealthCheck ==
    /\ Accepting
    /\ \E fault \in Faults : last' = health_check(fault)
    /\ UNCHANGED <<MODEL_NAME, model, tokenizer, device, phase, loads>>

(* embed_text dropping the model when inference fails *)
EmbedText_drops_model ==
    /\ Accepting
    /\ \E request \in EmbeddingRequest, fault \in Faults :
          /\ last' = embed_text(request, fault)
          /\ model' = IF last'.status = StatusInternalError THEN None ELSE model
    /\ UNCHANGED <<MODEL_NAME, tokenizer, device, phase, loads>>

EmbedText ==
    /\ Accepting
    /\ \E request \in EmbeddingRequest, fault \in Faults : last' = embed_text(request, fault)
    /\ UNCHANGED <<MODEL_NAME, model, tokenizer, device, phase, loads>>

EmbedBatch ==
    /\ Accepting
    /\ \E request \in BatchEmbeddingRequest, fault \in Faults :
          last' = embed_batch(request, fault)
    /\ UNCHANGED <<MODEL_NAME, model, tokenizer, device, phase, loads>>

(* lifespan: startup calls load_model() *)
LifespanStartup ==
    /\ phase = "imported"
    /\ phase' = "select_device"
    /\ loads' = loads + 1
    /\ UNCHANGED <<MODEL_NAME, model, tokenizer, device, last>>

SelectDevice ==
    /\ phase = "select_device"
    /\ \E cuda \in BOOLEAN, mps \in BOOLEAN :
          device' = IF cuda THEN "cuda" ELSE IF mps THEN "mps" ELSE "cpu"
    /\ phase' = "load_tokenizer"
    /\ UNCHANGED <<MODEL_NAME, model, tokenizer, loads, last>>

LoadTokenizer ==
    /\ phase = "load_tokenizer"
    /\ \E ok \in BOOLEAN :
          IF ok
          THEN tokenizer' = os_getenv(MODEL_NAME, DefaultModelName) /\ phase' = "load_model"
          ELSE tokenizer' = tokenizer /\ phase' = "failed"
    /\ UNCHANGED <<MODEL_NAME, model, device, loads, last>>

(* load_model swallowing a failed AutoModel.from_pretrained *)
LoadModel_failure_swallowed ==
    /\ phase = "load_model"
    /\ \E ok \in BOOLEAN :
          IF ok
          THEN /\ model' = [name |-> os_getenv(MODEL_NAME, DefaultModelName),
                            device |-> "cpu", eval |-> TRUE]
               /\ phase' = "model_to"
          ELSE model' = model /\ phase' = "loaded"
    /\ UNCHANGED <<MODEL_NAME, tokenizer, device, loads, last>>

LoadModel ==
    /\ phase = "load_model"
    /\ \E ok \in BOOLEAN :
          IF ok
          THEN /\ model' = [name |-> os_getenv(MODEL_NAME, DefaultModelName),
                            device |-> "cpu", eval |-> TRUE]
               /\ phase' = "model_to"
          ELSE model' = model /\ phase' = "failed"
    /\ UNCHANGED <<MODEL_NAME, tokenizer, device, loads, last>>

ModelTo ==
    /\ phase = "model_to"
    /\ \E ok \in BOOLEAN :
          IF ok
          THEN model' = [model EXCEPT !.device = device] /\ phase' = "model_eval"
          ELSE model' = model /\ phase' = "failed"
    /\ UNCHANGED <<MODEL_NAME, tokenizer, device, loads, last>>

ModelEval ==
    /\ phase = "model_eval"
    /\ model' = [model EXCEPT !.eval = TRUE]
    /\ phase' = "loaded"
    /\ UNCHANGED <<MODEL_NAME, tokenizer, device, loads, last>>

(* load_model returned: the lifespan yields and the server accepts traffic *)
LifespanYield ==
    /\ phase = "loaded"
    /\ phase' = "serving"
    /\ UNCHANGED <<MODEL_NAME, model, tokenizer, device, loads, last>>

LifespanShutdown ==
    /\ phase = "serving"
    /\ phase' = "shutdown"
    /\ UNCHANGED <<MODEL_NAME, model, tokenizer, device, loads, last>>

Next ==
    \/ Root
    \/ HealthCheck
    \/ EmbedText
    \/ EmbedBatch
    \/ LifespanStartup
    \/ SelectDevice
    \/ LoadTokenizer
    \/ LoadModel
    \/ ModelTo
    \/ ModelEval
    \/ LifespanYield
    \/ LifespanShutdown

Spec == Init /\ [][Next]_vars

TypeOK ==
    /\ MODEL_NAME \in EnvModelNames
    /\ phase \in {"imported", "select_device", "load_tokenizer", "load_model", "model_to",
                  "model_eval", "loaded", "serving", "failed", "shutdown"}
    /\ device \in {NoDevice, "cuda", "mps", "cpu"}
    /\ loads \in 0..1

----------------------------------------------------------------------------
(* Properties *)

IsInference(r) == r.endpoint \in {"/health", "/embed", "/embed/batch"}

BatchSize(r) == IF r.endpoint = "/embed/batch" THEN Len(r.req.texts) ELSE 0

IsEmptyBatch(r) == r.endpoint = "/embed/batch" /\ r.req.texts = <<>>

LoadModelPhases == {"select_device", "load_tokenizer", "load_model", "model_to", "model_eval"}

(* C1: with the model or tokenizer not loaded, POST /embed and POST
   /embed/batch with a non-empty texts list answer with the
   service-unavailable status that GET /health uses in that state, not with
   the internal-error status. *)
C1_NotLoadedIsUnavailable ==
    (/\ ~last.loaded
     /\ \/ last.endpoint = "/embed"
        \/ last.endpoint = "/embed/batch" /\ BatchSize(last) >= 1)
    => last.status = StatusUnavailable

(* the vector pooled from the row of text i alone: text i encoded, padded to
   the longest encoding in the batch, run through the model on its own *)
RowEmbedding(texts, i, max_length) ==
    LET enc == Encode(texts[i], max_length)
        L   == MaxLen([j \in 1..Len(texts) |-> Encode(texts[j], max_length)])
        row == [input_ids      |-> <<[p \in 1..L |-> IF p <= Len(enc) THEN enc[p] ELSE PAD]>>,
                attention_mask |-> <<[p \in 1..L |-> IF p <= Len(enc) THEN 1 ELSE 0]>>]
    IN  MeanDim1(model, Forward(model, row))[1]

(* C2: a successful POST /embed/batch with N >= 1 texts returns exactly N
   vectors, count = N, and the vector at position i is the one computed from
   the text at position i: none dropped, duplicated or swapped. *)
C2_BatchOrderAndCount ==
    (last.endpoint = "/embed/batch" /\ last.status = StatusOK /\ BatchSize(last) >= 1)
    => /\ Len(last.body.embeddings) = Len(last.req.texts)
       /\ last.body.count = Len(last.req.texts)
       /\ \A i \in 1..Len(last.req.texts) :
             last.body.embeddings[i] = RowEmbedding(last.req.texts, i, last.req.max_length)

C2_Witness ==
    /\ last.endpoint = "/embed/batch"
    /\ last.status = StatusOK
    /\ Len(last.req.texts) = 2
    /\ last.req.texts[1] # last.req.texts[2]
    /\ last.body.embeddings[1] # last.body.embeddings[2]

(* C3: POST /embed/batch with an empty texts list succeeds with
   embeddings = [] and count = 0, and neither the tokenizer nor the model is
   called while it is handled. *)
C3_EmptyBatch ==
    IsEmptyBatch(last)
    => /\ last.status = StatusOK
       /\ last.body.embeddings = <<>>
       /\ last.body.count = 0
       /\ last.tok = 0
       /\ last.fwd = 0

C3_Witness == IsEmptyBatch(last) /\ last.loaded /\ phase = "serving"

(* C4: for a loaded model the dimension field of every successful /health,
   /embed and /embed/batch response, the empty-list /embed/batch response
   included, equals that model's hidden size. *)
C4_DimensionIsHiddenSize ==
    (IsInference(last) /\ last.loaded /\ last.status = StatusOK)
    => last.body.dimension = HiddenSize(model.name)

(* C5: whenever the process is serving, model, tokenizer and device are set
   (the model moved to the device and in eval mode); and once a step of
   load_model has failed the process never serves. *)
C5_LoadedBeforeServing ==
    /\ [](phase = "serving" =>
            /\ model # None
            /\ tokenizer # NoTokenizer
            /\ device # NoDevice
            /\ model.device = device
            /\ model.eval)
    /\ [][phase = "failed" => phase' = "failed"]_vars

C5_Witness ==
    /\ phase = "serving"
    /\ model # None
    /\ last.endpoint = "/embed"
    /\ last.status = StatusOK

(* C6: every failure of the tokenizer or of the forward pass, on /embed,
   /embed/batch and the probe of /health, is caught in the handler and
   answered with the internal-error status carrying the failure's text. *)
C6_FailuresCaught ==
    last.failure \in {"tokenizer", "forward"}
    => /\ last.status = StatusInternalError
       /\ ~last.escaped
       /\ last.detail = FaultMessage(last.failure)

(* C7: while the model is not loaded no inference endpoint answers with
   success, whatever the request body, the empty texts list included. *)
C7_NoSuccessBeforeLoad ==
    (IsInference(last) /\ ~last.loaded) => last.status # StatusOK

(* C8: model, tokenizer and device are written only inside load_model, which
   is entered once; a handler call, succeeding or failing, leaves them as
   they were. *)
C8_GlobalsWrittenOnlyByLoadModel ==
    [][/\ globals' # globals => (phase \in LoadModelPhases /\ loads = 1)
       /\ last' # last => globals' = globals
       /\ loads' <= 1]_vars

C8_Witness ==
    /\ phase = "serving"
    /\ last.status = StatusInternalError
    /\ last.failure = "forward"
    /\ model # None
    /\ tokenizer # NoTokenizer

(* C9: in POST /embed/batch the vector of a text does not depend on the other
   texts of the batch: it equals the vector POST /embed returns for the same
   text and max_length. *)
C9_BatchEqualsSingle ==
    (last.endpoint = "/embed/batch" /\ last.status = StatusOK /\ BatchSize(last) >= 1)
    => \A i \in 1..Len(last.req.texts) :
          last.body.embeddings[i]
             = generate_embedding(last.req.texts[i], last.req.max_length, "none").value

(* C10: a successful GET /health reports the name of the model load_model
   loaded and the device load_model selected. *)
C10_HealthReportsLoadedModel ==
    (last.endpoint = "/health" /\ last.status = StatusOK)
    => /\ last.body.model = model.name
       /\ last.body.device = device
====
